---- MODULE Spec2Model ----
(***************************************************************************)
(* attract: client, connection dispatcher and per-connection handlers of   *)
(* the AT Computing traffic achievement tool, as a state machine.          *)
(*                                                                         *)
(* A session s is one client process together with the control connection  *)
(* it opens; the handler the dispatcher forks for that connection carries  *)
(* the same index.  Characters are one-character strings, C strings are    *)
(* sequences of characters, a TCP stream is a sequence of written items    *)
(* and the UDP network is a bag of datagrams that may be lost or           *)
(* reordered.                                                              *)
(***************************************************************************)
EXTENDS Integers, Sequences, FiniteSets, TLC

\* ------------------------------------------------------------ constants
MYPORT     == 31432      \* default port, also base of the UDP port search
MAXLEN     == 65636      \* largest packet length accepted by -l
UDPTOUT    == 5          \* seconds of the UDP receive timeout
CHECKMASK  == 31         \* 0x1f: the clock is sampled when cnt & 0x1f = 0
CTLINFOSZ  == 32         \* sizeof ctlinfo in handlecon

\* --------------------------------------------------------------- bounds
MaxCount   == 2          \* -c values explored: 1..MaxCount
MaxChecks  == 1          \* clock samples after which the deadline has passed
SockCap    == 1          \* packets a TCP direction buffers before write blocks
UdpCap     == 1          \* datagrams in flight per direction
PortSpan   == 1          \* candidate UDP ports above the base port
MaxBytes   == 3          \* packet lengths of the byte-level stream: 1..MaxBytes
MaxPackets == 3          \* packets written to the byte-level stream
MaxAddrs   == 3          \* addresses the resolver returns for a host
MaxTout    == 2          \* client receive timeouts counted exactly

Sess       == {1, 2}
MesLens    == {512}       \* packet lengths (-l) explored
Ports      == MYPORT..(MYPORT + PortSpan)

NUL        == "NUL"
WS         == {" ", "\n", "\t"}
DigitChars == <<"0", "1", "2", "3", "4", "5", "6", "7", "8", "9">>
DigitSet   == {DigitChars[i] : i \in 1..10}
UNINIT     == "uninit"    \* a variable sscanf left unassigned

\* ------------------------------------------------------- text conversion
\* printf("%d") / printf("%lld") of n
RECURSIVE DecDigits(_)
DecDigits(n) ==
    IF n < 10 THEN <<DigitChars[n + 1]>>
    ELSE DecDigits(n \div 10) \o <<DigitChars[(n % 10) + 1]>>

FmtInt(n) == IF n < 0 THEN <<"-">> \o DecDigits(0 - n) ELSE DecDigits(n)

DigitVal(c) == CHOOSE d \in 0..9 : DigitChars[d + 1] = c

\* index of the first NUL at or after i, Len(b) + 1 when there is none
RECURSIVE NulAt(_, _)
NulAt(b, i) == IF i > Len(b) \/ b[i] = NUL THEN i ELSE NulAt(b, i + 1)

\* the C string held in a buffer: the characters before the first NUL
CStr(b) == SubSeq(b, 1, NulAt(b, 1) - 1)

\* scanf white space directive: index of the first non-blank at or after i
RECURSIVE SkipWS(_, _)
SkipWS(s, i) == IF i <= Len(s) /\ s[i] \in WS THEN SkipWS(s, i + 1) ELSE i

\* end (exclusive) of the run of digits starting at i
RECURSIVE DigitsEnd(_, _)
DigitsEnd(s, i) ==
    IF i <= Len(s) /\ s[i] \in DigitSet THEN DigitsEnd(s, i + 1) ELSE i

RECURSIVE DigitsValue(_, _, _, _)
DigitsValue(s, i, e, acc) ==
    IF i >= e THEN acc ELSE DigitsValue(s, i + 1, e, acc * 10 + DigitVal(s[i]))

\* the element of a one-element set: Only({e : x \in {d}}) is e with x
\* standing for the value of d
Only(S) == CHOOSE x \in S : TRUE

\* scanf %d / %lld at index i: skip blanks, optional sign, one or more digits
ScanInt(str, i) ==
    Only({ LET sg == j <= Len(s) /\ s[j] \in {"-", "+"}
               k  == IF sg THEN j + 1 ELSE j
           IN  Only({ IF e = k THEN [ok |-> FALSE, val |-> 0, next |-> i]
                      ELSE LET v == DigitsValue(s, k, e, 0)
                           IN  [ok |-> TRUE,
                                val |-> IF sg /\ s[j] = "-" THEN 0 - v ELSE v,
                                next |-> e] :
                      e \in {DigitsEnd(s, k)} }) :
           s \in {str}, j \in {SkipWS(str, i)} })

\* atoi(): as scanf %d, 0 when no number starts the string
Atoi(s) == ScanInt(s, 1).val

\* sprintf(buf, "%c %c %c %d\n", ipvers, prot, direct, meslen) followed by
\* write(tcpsock, buf, strlen(buf)+1): the line and its terminating NUL
CtlEncode(v, p, d, len) ==
    <<v, " ", p, " ", d, " ">> \o FmtInt(len) \o <<"\n", NUL>>

\* a control buffer of 8 bytes
CtlReadShort(bytes) ==
    SubSeq(bytes, 1, IF Len(bytes) < 8 THEN Len(bytes) ELSE 8)

\* read(tcpsock, ctlinfo, sizeof ctlinfo) keeps at most CTLINFOSZ bytes
CtlRead(bytes) ==
    SubSeq(bytes, 1, IF Len(bytes) < CTLINFOSZ THEN Len(bytes) ELSE CTLINFOSZ)

\* sscanf(ctlinfo, "%c %c %c %lld", &ipvers, &prot, &direct, &targetlen)
CtlParse(bytes) ==
    Only({ LET i2 == SkipWS(s, 2)
               i3 == SkipWS(s, i2 + 1)
               c1 == 1 <= Len(s)
               c2 == c1 /\ i2 <= Len(s)
               c3 == c2 /\ i3 <= Len(s)
           IN  Only({ LET c4 == c3 /\ n.ok
                      IN  [n      |-> IF c4 THEN 4 ELSE IF c3 THEN 3
                                      ELSE IF c2 THEN 2 ELSE IF c1 THEN 1 ELSE 0,
                           ipvers |-> IF c1 THEN s[1] ELSE UNINIT,
                           prot   |-> IF c2 THEN s[i2] ELSE UNINIT,
                           direct |-> IF c3 THEN s[i3] ELSE UNINIT,
                           len    |-> IF c4 THEN n.val ELSE -1] :
                      n \in {ScanInt(s, SkipWS(s, i3 + 1))} }) :
           s \in {CStr(CtlRead(bytes))} })

\* sprintf(buf, "%d", udpport); write(tcpsock, buf, strlen(buf)+1)
PortEncode(port) == FmtInt(port) \o <<NUL>>

\* the port getaddrinfo() resolves from the numeric service string
PortParse(bytes) == Atoi(CStr(bytes))

\* the timeout seconds written before the received-count
FinalEncodeSwapped(nrcv, ntout, cpu) ==
    FmtInt(ntout * UDPTOUT) \o <<" ">> \o FmtInt(nrcv) \o <<" ">>
        \o FmtInt(cpu) \o <<NUL>>

\* the timeout counter sent as it stands
TimeoutCount(ntout) == ntout

\* numtout*UDPTOUT: the seconds the handler spent in receive timeouts
TimeoutSecs(ntout) == ntout * UDPTOUT

\* sprintf(buf, "%lld %lld %ld", numrcv, numtout*UDPTOUT, cpuserv)
FinalEncode(nrcv, ntout, cpu) ==
    FmtInt(nrcv) \o <<" ">> \o FmtInt(TimeoutSecs(ntout)) \o <<" ">>
        \o FmtInt(cpu) \o <<NUL>>

\* sscanf(buf, "%lld %lld %ld", &numrcv, &numtout, &hogserv)
FinalParse(bytes) ==
    Only({ Only({ Only({
        [n       |-> IF ~a.ok THEN 0 ELSE IF ~b.ok THEN 1 ELSE IF ~c.ok THEN 2
                     ELSE 3,
         numrcv  |-> a.val, numtout |-> b.val, hogserv |-> c.val] :
        c \in {ScanInt(s, b.next)} }) :
        b \in {ScanInt(s, a.next)} }) :
        s \in {CStr(bytes)}, a \in {ScanInt(CStr(bytes), 1)} })

\* C integer division: the quotient truncated towards zero (b > 0)
CDiv(a, b) == IF a >= 0 THEN a \div b ELSE 0 - ((0 - a) \div b)

\* ---------------------------------------------------------------- state
VARIABLES
    \* client process of session s (main)
    cpc,        \* position: off, start, ctlwr, portrd, loop, recv, final, exit
    ipvers,     \* '?', '4' or '6'
    prot,       \* 't' or 'u'
    direct,     \* 'u' or 'b'
    meslen,     \* packet length
    mesnum,     \* packet count, 0 = time based transfer
    cnt,        \* packets counted by the transfer loop
    proceed,    \* loop flag
    cbuf0,      \* buf[0] of the client's packet buffer
    ctout,      \* the client's numtout
    expired,    \* times() has reached endtime
    udpdst,     \* port of the UDP endpoint resolved by getudpsock
    cexit,      \* exit status: run, 0, 1, 3, SIGPIPE
    calarm,     \* the alarm of a receive is pending
    cdiag,      \* what the client wrote to stderr before it ended
    report,     \* the statistics printed, or NoReport
    \* handler process of session s (handlecon)
    hpc,        \* position: none, ctlrd, search, portwr, loop, finalwr, exit
    hctl,       \* ipvers, prot, direct, targetlen as parsed from ctlinfo
    udpport,    \* candidate / chosen UDP port
    bound,      \* UDP port the handler's socket is bound to, 0 = none
    numrcv,     \* packets received
    htout,      \* the handler's numtout
    hexit,      \* exit status
    halarm,     \* the alarm of a receive is pending
    hdiag,      \* what the handler wrote to stderr before it ended
    \* dispatcher (genserver)
    disp,       \* position, listening socket and exit status of the dispatcher
    conn,       \* control connection: none, pending (in the backlog), accepted
    \* channels
    c2s,        \* TCP stream client -> server
    s2c,        \* TCP stream server -> client
    copen,      \* the client holds its end of the connection open
    sopen,      \* a server process holds its end of the connection open
    reset,      \* the server end was closed with unread data: the client
                \* is sent a reset and its reads fail instead of ending
    unet,       \* datagrams in flight towards server ports
    uecho,      \* datagrams in flight towards the client of session s
    \* history
    gotport,    \* the client's read of the Port reply returned reply bytes
    esent,      \* data packets sent with the end-of-transfer marker
    aftere,     \* data packets sent after a marker packet
    epos,       \* cnt of the first marker packet, 0 = none sent
    sawE,       \* the handler received a packet starting with the marker
    ateData,    \* the handler's control read consumed data packet bytes
    replied,    \* Port reply bytes the handler wrote, <<>> = none
    skipped,    \* candidate ports the handler's search gave up on
    finalmsg,   \* Final statistics bytes the handler wrote, <<>> = none
    echoed,     \* packets the handler sent back
    tried,      \* the client's calls of gettcpsock in order: the address
                \* family and whether the connection was made
    nsample,    \* times() calls of the deadline test in the transfer loop
    late,       \* packets sent after the clock reached endtime (env.clock)
    calc,       \* figures of the report arithmetic, inputs and result
    \* environment
    env         \* faults: fork, connect and socket calls may fail;
                \* blocked: the ports on which getaddrinfo, socket or bind
                \* fails for a reason outside the server;
                \* clock: the run follows the clock also where the program
                \* does not read it, and counts the late packets

cvars == <<cpc, ipvers, prot, direct, meslen, mesnum, cnt, proceed, cbuf0,
           ctout, calarm, expired, udpdst, cexit, cdiag, report>>
hvars == <<hpc, hctl, udpport, bound, numrcv, htout, halarm, hexit,
           hdiag>>
nvars == <<conn, c2s, s2c, copen, sopen, reset, unet, uecho>>
gvars == <<gotport, esent, aftere, epos, sawE, ateData, replied, skipped,
           finalmsg>>
xvars == <<echoed, tried, nsample, late, calc>>
vars  == <<cvars, hvars, nvars, gvars, xvars, disp, env>>

NoReport == [cnt |-> -1]
NoCalc   == [op |-> "none"]

\* genserver, lines 570-640: the dispatcher before it creates its endpoint,
\* and the dispatcher in its accept loop on an IPv6 endpoint
\* held: the handlers that hold a descriptor of the listening socket
Booting   == [pc |-> "boot", passock |-> "none", tried |-> <<>>,
              code |-> "run", err |-> "", held |-> {}]
Listening == [pc |-> "accept", passock |-> "6", tried |-> <<<<"6", "ok">>>>,
              code |-> "run", err |-> "", held |-> {}]
NoCtl    == [n |-> 0, ipvers |-> UNINIT, prot |-> UNINIT, direct |-> UNINIT,
             len |-> -1]
Markers  == {"X", "E"}
Dgrams   == [port : Ports, src : Sess, b0 : Markers]

Data(b, l)   == [k |-> "data", b0 |-> b, len |-> l]
Bytes(k, bs) == [k |-> k, bytes |-> bs]

\* char *myport = MYPORT
myport       == FmtInt(MYPORT)

\* first byte of what a data read takes from a stream item
Byte0(item)  == IF item.k = "data" THEN item.b0 ELSE item.bytes[1]

\* outcomes of write() on a connection: it succeeds while the peer holds
\* its end; once the peer has closed it may still succeed (the bytes are
\* discarded), fail, or raise SIGPIPE, which terminates the process
WriteOutcomes(peerOpen) == IF peerOpen THEN {"ok"} ELSE {"ok", "err", "sig"}
ExitOf(o)    == IF o = "err" THEN "1" ELSE "SIGPIPE"

\* what a failing write leaves on stderr: the line of perror, and nothing
\* when SIGPIPE ended the process
DiagOf(o, msg) == IF o = "err" THEN msg ELSE ""

\* hundredths of a second of CPU time a handler may have used
CpuSamples   == {7}

\* every receive guarded by the alarm
TimedAny(p)   == TRUE

\* no receive guarded by the alarm
TimedNever(p) == FALSE

\* getmes, lines 874 and 889-899: only a receive that is not a TCP
\* receive is guarded by alarm(UDPTOUT)
Timed(p)      == p # "t"

\* getmes, lines 892-893: on the way into recvfrom alarm(UDPTOUT) is called;
\* a TCP receive leaves the alarm as it was
Armed(p, was) == IF Timed(p) THEN TRUE ELSE was

\* the alarm left pending after a receive
NotCancelled(p, was) == was

\* getmes, line 905: alarm(0) after a recvfrom that succeeded
Cancelled(p, was) == IF p # "t" THEN FALSE ELSE was

\* every packet marked
MarkAll(last, prev)  == "E"

\* main, lines 336-339 and 342-345: buf[0] = 'E' in the last iteration,
\* otherwise the buffer is sent as it is
MarkLast(last, prev) == IF last THEN "E" ELSE prev

\* the search started one port above the base
SearchStartAbove == Atoi(myport) + 1

\* handlecon, line 727: udpport = atoi(myport)
SearchStart      == Atoi(myport)

\* a data port searched for every transport
WantsUdpAlways(ctl) == TRUE

\* handlecon, line 708: if (prot == 'u')
WantsUdp(ctl)       == ctl.prot = "u"

\* ------------------------------------------------------------- client
\* exit() of the client: the process ends, its sockets are closed
ClientExit(s, code, msg) ==
    /\ cpc'   = [cpc EXCEPT ![s] = "exit"]
    /\ cexit' = [cexit EXCEPT ![s] = code]
    /\ cdiag' = [cdiag EXCEPT ![s] = msg]
    /\ copen' = [copen EXCEPT ![s] = FALSE]
    /\ s2c'   = [s2c EXCEPT ![s] = <<>>]
    /\ uecho' = [uecho EXCEPT ![s] = {}]

\* main, lines 112 and 195-219: meslen, mesnum and mestime are unsigned int.
\* The model keeps the 32 bits atoi returned, a negative number standing
\* for itself plus 2^32; "<= 0" on an unsigned int is true for 0 only
UnsignedLe0(x) == x = 0

\* main, line 199: meslen > MAXLEN compared as unsigned int
UnsignedGt(x, m) == x < 0 \/ x > m

\* *optarg: the first character of the option's argument, NUL when empty
FirstChar(arg) == IF arg = <<>> THEN NUL ELSE arg[1]

\* main, lines 155-231: the case of the switch for option opt with argument
\* arg on the flags f: the diagnostic of a refused value ("" when the value
\* is accepted) and the flags afterwards
Getopt(opt, arg, f) ==
    LET c == FirstChar(arg)
        n == Atoi(arg)
    IN  CASE opt = "v" -> [msg |-> IF c \notin {"4", "6"}
                                  THEN "Wrong value for version" ELSE "",
                           f   |-> [f EXCEPT !.v = c]]
          [] opt = "p" -> [msg |-> IF c \notin {"t", "u"}
                                  THEN "Wrong value for protocol" ELSE "",
                           f   |-> [f EXCEPT !.p = c]]
          [] opt = "d" -> [msg |-> IF c \notin {"u", "b"}
                                  THEN "Wrong value for direction" ELSE "",
                           f   |-> [f EXCEPT !.d = c]]
          [] opt = "l" -> [msg |-> IF UnsignedLe0(n)
                                  THEN "Wrong value for length"
                                  ELSE IF UnsignedGt(n, MAXLEN)
                                  THEN "Maximum length is" ELSE "",
                           f   |-> [f EXCEPT !.l = n]]
          [] opt = "c" -> [msg |-> IF UnsignedLe0(n)
                                  THEN "Wrong value for count" ELSE "",
                           f   |-> [f EXCEPT !.n = n]]
          [] opt = "t" -> [msg |-> IF UnsignedLe0(n)
                                  THEN "Wrong value for timeout" ELSE "",
                           f   |-> [f EXCEPT !.t = n]]

\* main, lines 155-252: one option of the command line is handled; a
\* refused value ends the client with exit(1), otherwise the flags are set
\* and the client goes on to connect
ClientArgs(s) ==
    /\ cpc[s] = "args"
    /\ calc.op = "args"
    /\ \E r \in {Getopt(calc.opt, calc.arg,
                         [v |-> ipvers[s], p |-> prot[s], d |-> direct[s],
                          l |-> meslen[s], n |-> mesnum[s], t |-> calc.mestime])} :
         /\ calc' = [calc EXCEPT !.op = "parsed", !.mestime = r.f.t]
         /\ IF r.msg # ""
            THEN /\ ClientExit(s, "1", r.msg)
                 /\ UNCHANGED <<ipvers, prot, direct, meslen, mesnum>>
            ELSE /\ cpc'    = [cpc EXCEPT ![s] = "start"]
                 /\ ipvers' = [ipvers EXCEPT ![s] = r.f.v]
                 /\ prot'   = [prot EXCEPT ![s] = r.f.p]
                 /\ direct' = [direct EXCEPT ![s] = r.f.d]
                 /\ meslen' = [meslen EXCEPT ![s] = r.f.l]
                 /\ mesnum' = [mesnum EXCEPT ![s] = r.f.n]
                 /\ UNCHANGED <<cexit, cdiag, copen, s2c, uecho>>
    /\ UNCHANGED <<cnt, proceed, cbuf0, ctout, calarm, expired, udpdst, report, hvars,
                   conn, disp, c2s, sopen, reset, unet, gvars, env, echoed, tried,
                   nsample, late>>

\* IPv4 tried before IPv6 when no family was given
FamiliesV4First(v) ==
    IF v = "4" THEN <<"4">> ELSE IF v = "6" THEN <<"6">> ELSE <<"4", "6">>

\* main, lines 254-277: the families gettcpsock is called with, in order:
\* the one given with -v, otherwise AF_INET6 and then AF_INET
Families(v) ==
    IF v = "4" THEN <<"4">> ELSE IF v = "6" THEN <<"6">> ELSE <<"6", "4">>

\* the families a connect can succeed with: none without a listening
\* socket, IPv4 only on an IPv4 endpoint, both on an IPv6 endpoint
Reachable ==
    IF disp.pc # "accept" \/ disp.passock = "none" THEN {}
    ELSE IF disp.passock = "4" THEN {"4"} ELSE {"4", "6"}

\* main, lines 254-277: gettcpsock per family until one connects; up is
\* the set of families with which the server can be reached
ClientConnect(s) ==
    /\ cpc[s] = "start"
    /\ \E up \in (IF env.faults THEN SUBSET Reachable ELSE {Reachable}) :
         LET order == Families(ipvers[s])
             hits  == {i \in 1..Len(order) : order[i] \in up}
             n     == IF hits = {} THEN Len(order)
                      ELSE CHOOSE i \in hits : \A j \in hits : i <= j
         IN  /\ tried' = [tried EXCEPT ![s] =
                            [i \in 1..n |-> <<order[i], order[i] \in up>>]]
             /\ IF hits = {}
                THEN /\ ClientExit(s, "1", "connect to TCP socket")
                     /\ UNCHANGED <<ipvers, conn, disp, sopen, reset>>
                ELSE /\ ipvers' = [ipvers EXCEPT ![s] = order[n]]
                     /\ cpc'    = [cpc EXCEPT ![s] = "ctlwr"]
                     /\ conn'   = [conn EXCEPT ![s] = "pending"]
                     /\ copen'  = [copen EXCEPT ![s] = TRUE]
                     /\ sopen'  = [sopen EXCEPT ![s] = TRUE]
                     /\ UNCHANGED <<cexit, cdiag, s2c, uecho, reset>>
    /\ UNCHANGED <<prot, direct, meslen, mesnum, cnt, proceed, cbuf0, ctout, calarm,
                   expired, udpdst, report, hvars, c2s, unet, gvars, env,
                   echoed, nsample, late, calc, disp>>

\* main, lines 288-293: the Control message is written once
ClientWriteCtl(s) ==
    /\ cpc[s] = "ctlwr"
    /\ \E o \in WriteOutcomes(sopen[s]) :
         IF o = "ok"
         THEN /\ cpc' = [cpc EXCEPT ![s] = "portrd"]
              /\ c2s' = [c2s EXCEPT ![s] =
                   IF sopen[s]
                   THEN Append(@, Bytes("ctl",
                          CtlEncode(ipvers[s], prot[s], direct[s], meslen[s])))
                   ELSE @]
              /\ UNCHANGED <<cexit, cdiag, copen, s2c, uecho>>
         ELSE /\ ClientExit(s, ExitOf(o), DiagOf(o, "c: write control-info"))
              /\ UNCHANGED c2s
    /\ UNCHANGED <<ipvers, prot, direct, meslen, mesnum, cnt, proceed, cbuf0,
                   ctout, calarm, expired, udpdst, report, hvars, conn, disp, sopen, reset, unet,
                   gvars, env, xvars>>

\* main, lines 299-313: one read for the Port reply (only a negative
\* result is an error), then getudpsock for a UDP transfer
ClientReadPort(s) ==
    /\ cpc[s] = "portrd"
    /\ \/ /\ s2c[s] # <<>>
          /\ gotport' = [gotport EXCEPT ![s] = TRUE]
          /\ \/ /\ cpc'    = [cpc EXCEPT ![s] = "loop"]
                /\ udpdst' = [udpdst EXCEPT ![s] =
                     IF prot[s] = "u" THEN PortParse(Head(s2c[s]).bytes) ELSE @]
                /\ s2c'    = [s2c EXCEPT ![s] = Tail(@)]
                /\ UNCHANGED <<cexit, cdiag, copen, uecho>>
             \/ /\ prot[s] = "u"          \* getudpsock fails
                /\ env.faults
                /\ ClientExit(s, "3", "connect to UDP socket")
                /\ UNCHANGED udpdst
       \/ /\ s2c[s] = <<>>
          /\ ~sopen[s]
          /\ \/ /\ ClientExit(s, "1", "c: read control-info")
                /\ UNCHANGED udpdst
             \/ /\ prot[s] = "t"          \* read() = 0: not an error
                /\ ~reset[s]
                /\ cpc' = [cpc EXCEPT ![s] = "loop"]
                /\ UNCHANGED <<udpdst, cexit, cdiag, copen, s2c, uecho>>
             \/ /\ prot[s] = "u"          \* udpport[] was never filled
                /\ ~reset[s]
                /\ \/ \E p \in Ports \cup {0} :
                        /\ udpdst' = [udpdst EXCEPT ![s] = p]
                        /\ cpc' = [cpc EXCEPT ![s] = "loop"]
                        /\ UNCHANGED <<cexit, cdiag, copen, s2c, uecho>>
                   \/ /\ ClientExit(s, "3", "connect to UDP socket")
                      /\ UNCHANGED udpdst
          /\ UNCHANGED gotport
    /\ UNCHANGED <<ipvers, prot, direct, meslen, mesnum, cnt, proceed, cbuf0,
                   ctout, calarm, expired, report, hvars, conn, disp, c2s, sopen, reset, unet,
                   esent, aftere, epos, sawE, ateData, replied, skipped, finalmsg, env, xvars>>

\* the clock reaches endtime = begtime + mestime * localhz
ClientDeadline(s) ==
    /\ cpc[s] \in {"loop", "recv"}
    /\ mesnum[s] = 0 \/ env.clock
    /\ ~expired[s]
    /\ expired' = [expired EXCEPT ![s] = TRUE]
    /\ UNCHANGED <<cpc, ipvers, prot, direct, meslen, mesnum, cnt, proceed,
                   cbuf0, ctout, calarm, udpdst, cexit, cdiag, report, hvars, nvars, disp, gvars,
                   env, xvars>>

\* times() called in every iteration of a time based transfer
SamplesAlways(s, n) == mesnum[s] = 0

\* the mask 0x1f taken for the distance between two calls of times()
SamplesEveryMask(s, n) == mesnum[s] = 0 /\ n % CHECKMASK = 0

\* main, lines 335 and 341: times() is called in a time based transfer
\* when (cnt & 0x1f) == 0, the left operand of the && being true
Samples(s, n) == mesnum[s] = 0 /\ n % (CHECKMASK + 1) = 0

\* the deadline ends a counted transfer too
LastPacketOnTime(s, n) == n = mesnum[s] \/ expired[s]

\* the count compared before the increment
LastPacketLate(s, n) ==
    IF mesnum[s] # 0
    THEN n = mesnum[s] + 1
    ELSE n % (CHECKMASK + 1) = 0 /\ expired[s]

\* main, lines 335-345: is the packet counted n the last one?
LastPacket(s, n) ==
    IF mesnum[s] # 0
    THEN n = mesnum[s]
    ELSE Samples(s, n) /\ expired[s]

\* main, lines 327-355: one iteration up to and including putmes
ClientSend(s) ==
    LET n    == cnt[s] + 1
        last == LastPacket(s, n)
        b0   == MarkLast(last, cbuf0[s])
        d    == [port |-> udpdst[s], src |-> s, b0 |-> b0]
    IN
    /\ cpc[s] = "loop"
    /\ proceed[s]
    /\ (mesnum[s] = 0 /\ n >= MaxChecks * (CHECKMASK + 1)) => expired[s]
    /\ \/ /\ prot[s] = "t"
          /\ sopen[s] => Len(c2s[s]) < SockCap
          /\ \E o \in WriteOutcomes(sopen[s]) :
               IF o = "ok"
               THEN /\ c2s' = [c2s EXCEPT ![s] =
                         IF sopen[s] THEN Append(@, Data(b0, meslen[s])) ELSE @]
                    /\ unet' = unet
                    /\ cpc'  = [cpc EXCEPT ![s] =
                         IF direct[s] = "u"
                         THEN IF last THEN "final" ELSE "loop" ELSE "recv"]
                    /\ UNCHANGED <<cexit, cdiag, copen, s2c, uecho>>
               ELSE /\ ClientExit(s, ExitOf(o), DiagOf(o, "write"))
                    /\ UNCHANGED <<c2s, unet>>
       \/ /\ prot[s] = "u"
          /\ unet' = IF d \in Dgrams /\ Cardinality(unet) < UdpCap
                     THEN unet \cup {d} ELSE unet
          /\ cpc'  = [cpc EXCEPT ![s] =
               IF direct[s] = "u"
               THEN IF last THEN "final" ELSE "loop" ELSE "recv"]
          /\ UNCHANGED <<c2s, cexit, cdiag, copen, s2c, uecho>>
    /\ cnt'     = [cnt EXCEPT ![s] = n]
    /\ proceed' = [proceed EXCEPT ![s] = ~last]
    /\ cbuf0'   = [cbuf0 EXCEPT ![s] = b0]
    /\ esent'   = [esent EXCEPT ![s] = IF b0 = "E" THEN @ + 1 ELSE @]
    /\ aftere'  = [aftere EXCEPT ![s] = IF esent[s] > 0 THEN @ + 1 ELSE @]
    /\ epos'    = [epos EXCEPT ![s] = IF b0 = "E" /\ @ = 0 THEN n ELSE @]
    /\ nsample' = [nsample EXCEPT ![s] = IF Samples(s, n) THEN @ + 1 ELSE @]
    /\ late'    = [late EXCEPT ![s] =
                     IF env.clock /\ expired[s] THEN @ + 1 ELSE @]
    /\ calarm'  = [calarm EXCEPT ![s] =
                     IF cpc'[s] = "recv" THEN Armed(prot[s], @) ELSE @]
    /\ UNCHANGED <<ipvers, prot, direct, meslen, mesnum, ctout, expired,
                   udpdst, report, hvars, conn, disp, sopen, reset, gotport, sawE, ateData,
                   replied, skipped, finalmsg, env, echoed, tried, calc>>

\* the loop given up when a receive timed out
TimeoutQuits(s)  == "final"

\* main, lines 327 and 360-364: the result of getmes is not looked at,
\* after a timeout the loop condition decides as after any receive
TimeoutPasses(s) == IF proceed[s] THEN "loop" ELSE "final"

\* main, lines 360-364 with getmes: the receive of a bidirectional transfer
ClientRecv(s) ==
    LET next == IF proceed[s] THEN "loop" ELSE "final" IN
    /\ cpc[s] = "recv"
    /\ \/ /\ prot[s] = "t"
          /\ s2c[s] # <<>>
          /\ cbuf0' = [cbuf0 EXCEPT ![s] = Byte0(Head(s2c[s]))]
          /\ s2c'   = [s2c EXCEPT ![s] = Tail(@)]
          /\ cpc'   = [cpc EXCEPT ![s] = next]
          /\ UNCHANGED <<ctout, calarm, cexit, cdiag, copen, uecho>>
       \/ /\ prot[s] = "t"                \* read() <= 0: close, exit(0)
          /\ s2c[s] = <<>>
          /\ ~sopen[s]
          /\ ClientExit(s, "0", "")
          /\ UNCHANGED <<cbuf0, ctout, calarm>>
       \/ /\ prot[s] = "u"
          /\ \E m \in uecho[s] :
               /\ cbuf0' = [cbuf0 EXCEPT ![s] = m]
               /\ uecho' = [uecho EXCEPT ![s] = @ \ {m}]
          /\ cpc' = [cpc EXCEPT ![s] = next]
          /\ calarm' = [calarm EXCEPT ![s] = Cancelled(prot[s], @)]
          /\ UNCHANGED <<ctout, cexit, cdiag, copen, s2c>>
       \/ /\ calarm[s]                    \* SIGALRM: timedout, numtout++
          /\ ctout'  = [ctout EXCEPT ![s] = IF @ < MaxTout THEN @ + 1 ELSE @]
          /\ calarm' = [calarm EXCEPT ![s] = FALSE]
          /\ cpc'    = [cpc EXCEPT ![s] = TimeoutPasses(s)]
          /\ UNCHANGED <<cbuf0, cexit, cdiag, copen, s2c, uecho>>
    /\ UNCHANGED <<ipvers, prot, direct, meslen, mesnum, cnt, proceed,
                   expired, udpdst, report, hvars, conn, disp, c2s, sopen, reset, unet,
                   gvars, env, xvars>>

\* main, line 138: localhz = sysconf(_SC_CLK_TCK), clock ticks per second
localhz == 100

\* main, lines 390-393: the elapsed ticks less the seconds the server timed
\* out, with 1 in the place of 0
RealTicks(beg, end, tout) ==
    LET realticks == end - beg - (tout * localhz)
    IN  IF realticks = 0 THEN 1 ELSE realticks

\* main, lines 385-393: the report arithmetic on the start tick, the end
\* tick and the timeout seconds scanned from the Final statistics
CalcTicks ==
    /\ calc.op = "in"
    /\ calc' = [op |-> "ticks", beg |-> calc.beg, end |-> calc.end,
                tout |-> calc.tout,
                realticks |-> RealTicks(calc.beg, calc.end, calc.tout)]
    /\ UNCHANGED <<cvars, hvars, nvars, disp, gvars, env, echoed, tried, nsample,
                   late>>

\* main, lines 400-403: factor = 2 for a bidirectional transfer, else 1
Factor(d) == IF d = "b" THEN 2 ELSE 1

\* main, lines 414-415 and 429-430: the K/s figure,
\* (((numrcv * meslen * factor) / realticks) * localhz) / 1024
Throughput(nrcv, len, factor, rt, hz) ==
    CDiv(CDiv(nrcv * len * factor, rt) * hz, 1024)

\* main, lines 400-432: the throughput arithmetic on a received count, a
\* packet length, a direction, the effective ticks and the tick rate
CalcThroughput ==
    /\ calc.op = "rate-in"
    /\ calc' = [calc EXCEPT !.op = "rate",
                            !.kps = Throughput(calc.nrcv, calc.len,
                                               Factor(calc.d), calc.rt, calc.hz)]
    /\ UNCHANGED <<cvars, hvars, nvars, disp, gvars, env, echoed, tried, nsample,
                   late>>

\* ------------------------------------------------- TCP stream in bytes
\* the bytes of data packet i of n, each of len bytes: the first byte holds
\* the marker in the last packet; pkt and off tell where a byte came from
PacketBytes(i, n, len) ==
    [j \in 1..len |-> [b   |-> IF j > 1 THEN "d" ELSE IF i = n THEN "E" ELSE "X",
                       pkt |-> i, off |-> j - 1]]

\* the receive returning after its first read
LeftAfterOneRead(len, rv) == 0

\* getmes, lines 885-886: len -= rv (and p += rv)
LeftAfter(len, rv) == len - rv

\* putmes, lines 918-924: the sender writes the next packet to the stream
TcpWrite ==
    /\ calc.op = "tcp"
    /\ calc.open
    /\ calc.sent < calc.n
    /\ calc' = [calc EXCEPT
                  !.sent   = @ + 1,
                  !.stream = @ \o PacketBytes(calc.sent + 1, calc.n, calc.len)]
    /\ UNCHANGED <<cvars, hvars, nvars, disp, gvars, env, echoed, tried, nsample,
                   late>>

\* the sender closes its end of the connection
TcpClose ==
    /\ calc.op = "tcp"
    /\ calc.open
    /\ calc' = [calc EXCEPT !.open = FALSE]
    /\ UNCHANGED <<cvars, hvars, nvars, disp, gvars, env, echoed, tried, nsample,
                   late>>

\* getmes, lines 879-887, called from handlecon, lines 773-797: one read()
\* of the loop.  left = 0 is the state between two calls: the receive has
\* returned, the packet is counted and buf[0] looked at; the next call
\* starts with the whole length.  read() returns between 1 byte and what is
\* asked for of the bytes that have arrived, 0 at the end of the stream.
TcpRead ==
    /\ calc.op = "tcp"
    /\ calc.left > 0 \/ calc.pkts = 0 \/ calc.buf[1].b # "E"
    /\ LET want == IF calc.left = 0 THEN calc.len ELSE calc.left
           at   == calc.len - want
       IN  \/ /\ calc.stream # <<>>
              /\ \E rv \in 1..want :
                   /\ rv <= Len(calc.stream)
                   /\ \E left \in {LeftAfter(want, rv)} :
                        calc' = [calc EXCEPT
                          !.stream = SubSeq(@, rv + 1, Len(@)),
                          !.buf    = [j \in 1..calc.len |->
                                        IF j > at /\ j <= at + rv
                                        THEN calc.stream[j - at] ELSE @[j]],
                          !.taken  = @ + rv,
                          !.left   = left,
                          !.pkts   = IF left = 0 THEN @ + 1 ELSE @]
           \/ /\ calc.stream = <<>>      \* read() = 0: close, exit(0)
              /\ ~calc.open
              /\ calc' = [calc EXCEPT !.op = "exit", !.code = "0",
                                      !.sock = FALSE]
    /\ UNCHANGED <<cvars, hvars, nvars, disp, gvars, env, echoed, tried, nsample,
                   late>>

\* ---------------------------------------------------------- gettcpsock
\* gettcpsock, lines 474-485: the entry of the resolver's list that socket()
\* and connect() are called with while the loop variable is at entry r:
\* (*si), the head of the list, in every iteration
Attempted(r) == 1

\* gettcpsock, lines 473-495: one pass of the loop over the resolved
\* addresses, or the return after the last.  addrs tells for each resolved
\* address whether it accepts the connection, nofd whether socket() fails;
\* info is the entry whose metadata *si hands back.
GetTcpSockStep ==
    /\ calc.op = "gettcpsock"
    /\ IF calc.r > Len(calc.addrs)
       THEN calc' = [calc EXCEPT
                       !.op   = "ret",
                       !.sock = "none",
                       !.diag = IF ~calc.verbose THEN ""
                                ELSE IF calc.addrs = <<>> THEN "c: host"
                                ELSE "connect to TCP socket"]
       ELSE IF calc.nofd
       THEN calc' = [calc EXCEPT !.r = @ + 1]
       ELSE \E a \in {Attempted(calc.r)} :
              IF calc.addrs[a]
              THEN calc' = [calc EXCEPT !.op = "ret", !.sock = "fd",
                                       !.info = 1,
                                       !.calls = Append(@, a)]
              ELSE calc' = [calc EXCEPT !.r = @ + 1,
                                       !.calls = Append(@, a)]
    /\ UNCHANGED <<cvars, hvars, nvars, disp, gvars, env, echoed, tried, nsample,
                   late>>

\* main, lines 385-432: the figures of the report
Report(s, st) ==
    [cnt     |-> cnt[s],
     numrcv  |-> st.numrcv,
     numtout |-> st.numtout,
     lost    |-> cnt[s] - st.numrcv,
     pct     |-> CDiv((cnt[s] - st.numrcv) * 100, cnt[s]),
     hogserv |-> st.hogserv]

\* a missing response taken for a normal end
NoResponseOk == "0"

\* main, lines 377-384: read() <= 0 after alarm(UDPTOUT+5): "No response
\* from server" or perror, and exit(1) in either case
NoResponse   == "1"

\* main, lines 374-438: wait at most UDPTOUT+5 seconds for the Final
\* statistics, then report
ClientFinal(s) ==
    /\ cpc[s] = "final"
    /\ \/ /\ s2c[s] # <<>>
          /\ Head(s2c[s]).k # "data"
          /\ \E st \in {FinalParse(Head(s2c[s]).bytes)} :
               /\ report' = [report EXCEPT ![s] = Report(s, st)]
               /\ ctout'  = [ctout EXCEPT ![s] = st.numtout]
          /\ ClientExit(s, "0", "")
          /\ UNCHANGED calarm
       \/ /\ s2c[s] = <<>>                \* read() = 0 or alarm went off
          /\ ClientExit(s, NoResponse, "No response from server")
          /\ UNCHANGED <<report, ctout, calarm>>
    /\ UNCHANGED <<ipvers, prot, direct, meslen, mesnum, cnt, proceed, cbuf0,
                   expired, udpdst, hvars, conn, disp, c2s, sopen, reset, unet, gvars, env, xvars>>

\* --------------------------------------------------------- dispatcher
\* the dispatcher back in accept only when no handler is running
AcceptsWhenIdle(s) ==
    conn[s] = "pending" /\ \A o \in Sess : hpc[o] \in {"none", "exit"}

\* genserver, lines 643-669: SIGCLD is ignored and the parent does not wait
\* for a child; after fork and close(comsock) it is back in accept, which
\* returns when a connection is in the backlog
Accepts(s) == conn[s] = "pending"

\* the IPv4 endpoint created whatever became of the IPv6 one
TriesV4Always(passock) == TRUE

\* genserver, line 602: if (passock == -1)
TriesV4(passock) == passock = "none"

\* what creating an endpoint ends with: the first call that fails, or ok
EndpointOutcomes == {"getaddrinfo", "socket", "bind", "listen", "ok"}

\* genserver, lines 567-640: the endpoint of the control channel, IPv6
\* first.  Without address or socket passock stays -1; a failing bind or
\* listen ends the server, as does a failing getaddrinfo for IPv4.
DispatcherStart ==
    /\ disp.pc = "boot"
    /\ \E o6 \in EndpointOutcomes, o4 \in EndpointOutcomes :
         LET fatal6 == o6 \in {"bind", "listen"}
             sock6  == IF o6 = "ok" THEN "6" ELSE "none"
             v4     == ~fatal6 /\ TriesV4(sock6)
             fatal4 == v4 /\ o4 \in {"getaddrinfo", "bind", "listen"}
         IN  /\ ~v4 => o4 = "ok"
             /\ disp' =
                   [pc      |-> IF fatal6 \/ fatal4 THEN "exit" ELSE "accept",
                    passock |-> IF v4 THEN (IF o4 = "ok" THEN "4" ELSE "none")
                                ELSE sock6,
                    tried   |-> IF v4 THEN <<<<"6", o6>>, <<"4", o4>>>>
                                ELSE <<<<"6", o6>>>>,
                    code    |-> IF fatal6 \/ fatal4 THEN "1" ELSE "run",
                    err     |-> IF fatal6 THEN "s: " \o o6 \o " ipv6"
                                ELSE IF fatal4 THEN "s: " \o o4 \o " ipv4"
                                ELSE "",
                    held    |-> {}]
    /\ UNCHANGED <<cvars, hvars, nvars, gvars, xvars, env>>

\* genserver, lines 651-655: accept() < 0: perror and exit(1); accept on a
\* socket that was never created fails at once
AcceptFail ==
    /\ disp.pc = "accept"
    /\ disp' = [disp EXCEPT !.pc = "exit", !.code = "1", !.err = "s: accept"]
    /\ UNCHANGED <<cvars, hvars, nvars, gvars, xvars, env>>

\* genserver, lines 661-664: fork() gives the child the descriptor of the
\* listening socket, and the child closes it before it calls handlecon
ChildCloses(held, s) == (held \cup {s}) \ {s}

\* genserver, lines 649-669: accept, fork, close(comsock) in the parent.
\* When fork() fails no process keeps the connection.
Accept(s) ==
    /\ disp.pc = "accept"
    /\ Accepts(s)
    /\ conn' = [conn EXCEPT ![s] = "accepted"]
    /\ \E forked \in (IF env.faults THEN BOOLEAN ELSE {TRUE}) :
         IF forked
         THEN /\ hpc'  = [hpc EXCEPT ![s] = "ctlrd"]
              /\ disp' = [disp EXCEPT !.held = ChildCloses(@, s)]
              /\ UNCHANGED <<sopen, reset, c2s>>
         ELSE /\ sopen' = [sopen EXCEPT ![s] = FALSE]
              /\ reset' = [reset EXCEPT ![s] = c2s[s] # <<>>]
              /\ c2s'   = [c2s EXCEPT ![s] = <<>>]
              /\ UNCHANGED <<hpc, disp>>
    /\ UNCHANGED <<cvars, hctl, udpport, bound, numrcv, htout, halarm, hexit, hdiag, s2c,
                   copen, unet, uecho, gvars, env, xvars>>

\* ------------------------------------------------------------ handler
\* a handler back in the accept loop of genserver when it is done
HandlerReturns == "accept"

\* handlecon, lines 693, 762, 820 and 825, getmes, lines 882 and 902: a
\* handler leaves handlecon by exit() only, its process ends
HandlerEnd     == "exit"

\* exit() of a handler: its sockets are closed, its UDP port is released;
\* data of the client left unread turns the close into a reset
HandlerExit(s, code, msg) ==
    /\ hpc'   = [hpc EXCEPT ![s] = HandlerEnd]
    /\ hexit' = [hexit EXCEPT ![s] = code]
    /\ hdiag' = [hdiag EXCEPT ![s] = msg]
    /\ sopen' = [sopen EXCEPT ![s] = FALSE]
    /\ reset' = [reset EXCEPT ![s] = @ \/ c2s[s] # <<>>]
    /\ bound' = [bound EXCEPT ![s] = 0]
    /\ c2s'   = [c2s EXCEPT ![s] = <<>>]

\* handlecon, lines 679-682: ipvers, prot, direct and targetlen are not
\* initialized.  What one of them holds when sscanf does not assign it:
\* each character the handler compares it with, or another one; a length
StackJunk == [ipvers : {"#"}, prot : {"t", "u", "#"}, direct : {"b", "#"},
              len : MesLens]

\* the values the handler goes on with after sscanf returned ctl
Settled(ctl, g) ==
    [n      |-> ctl.n,
     ipvers |-> IF ctl.n < 1 THEN g.ipvers ELSE ctl.ipvers,
     prot   |-> IF ctl.n < 2 THEN g.prot ELSE ctl.prot,
     direct |-> IF ctl.n < 3 THEN g.direct ELSE ctl.direct,
     len    |-> IF ctl.n < 4 THEN g.len ELSE ctl.len]

\* handlecon, lines 691-703: one read of the control information, sscanf
\* (its result is not looked at), and the start value of the port search
HReadCtl(s) ==
    /\ hpc[s] = "ctlrd"
    /\ \/ /\ c2s[s] # <<>>
          /\ \E item \in {Head(c2s[s])}, g \in StackJunk :
              \E ctl \in {Settled(CtlParse(IF item.k = "data" THEN <<item.b0>>
                                            ELSE item.bytes), g)} :
                 /\ hctl'    = [hctl EXCEPT ![s] = ctl]
                 /\ ateData' = [ateData EXCEPT ![s] =
                                  item.k = "data" \/ Len(c2s[s]) > 1]
                 /\ hpc'     = [hpc EXCEPT ![s] =
                                  IF WantsUdp(ctl) THEN "search" ELSE "portwr"]
                 /\ udpport' = [udpport EXCEPT ![s] =
                                  IF WantsUdp(ctl) THEN SearchStart ELSE @]
          /\ c2s' = [c2s EXCEPT ![s] = Tail(@)]
          /\ UNCHANGED <<hexit, hdiag, sopen, reset, bound>>
       \/ /\ c2s[s] = <<>>                \* read() <= 0: close, exit(1)
          /\ ~copen[s]
          /\ HandlerExit(s, "1", "")
          /\ UNCHANGED <<hctl, ateData, udpport>>
    /\ UNCHANGED <<cvars, numrcv, htout, halarm, conn, disp, s2c, copen, unet, uecho,
                   gotport, esent, aftere, epos, sawE, replied, skipped,
                   finalmsg, env, xvars>>

\* a bind that does not see the sockets of the other handlers
PortFreeUnseen(s, p) == p \notin env.blocked

\* getaddrinfo, socket and bind for candidate p succeed: nothing outside
\* the server blocks p and no other handler holds a socket bound to p
PortFree(s, p) == p \notin env.blocked /\ \A o \in Sess \ {s} : bound[o] # p

\* handlecon, lines 727-751: one candidate of the trial-and-error loop;
\* getaddrinfo, socket or bind may fail, and then the next port is tried
HSearch(s) ==
    /\ hpc[s] = "search"
    /\ udpport[s] <= MYPORT + PortSpan
    /\ IF PortFree(s, udpport[s])
       THEN /\ bound' = [bound EXCEPT ![s] = udpport[s]]
            /\ hpc'   = [hpc EXCEPT ![s] = "portwr"]
            /\ UNCHANGED udpport
            /\ UNCHANGED skipped
       ELSE /\ udpport' = [udpport EXCEPT ![s] = @ + 1]
            /\ skipped' = [skipped EXCEPT ![s] = @ \cup {udpport[s]}]
            /\ UNCHANGED <<bound, hpc>>
    /\ UNCHANGED <<cvars, hctl, numrcv, htout, halarm, hexit, hdiag, nvars, disp, gotport, esent,
                   aftere, epos, sawE, ateData, replied, finalmsg, env, xvars>>

\* handlecon, lines 758-763: the Port reply
HWritePort(s) ==
    /\ hpc[s] = "portwr"
    /\ \E o \in WriteOutcomes(copen[s]) :
         IF o = "ok"
         THEN /\ hpc' = [hpc EXCEPT ![s] = "loop"]
              /\ s2c' = [s2c EXCEPT ![s] =
                   IF copen[s]
                   THEN Append(@, Bytes("port", PortEncode(udpport[s])))
                   ELSE @]
              /\ replied' = [replied EXCEPT ![s] = PortEncode(udpport[s])]
              /\ halarm' = [halarm EXCEPT ![s] = Armed(hctl[s].prot, @)]
              /\ UNCHANGED <<hexit, hdiag, sopen, reset, bound, c2s>>
         ELSE /\ HandlerExit(s, ExitOf(o), DiagOf(o, "s: write"))
              /\ UNCHANGED <<s2c, replied, halarm>>
    /\ UNCHANGED <<cvars, hctl, udpport, numrcv, htout, conn, disp, copen, unet,
                   uecho, gotport, esent, aftere, epos, sawE, ateData, skipped,
                   finalmsg, env, xvars>>

\* every packet sent back, whatever the direction
EchoesAlways(d) == TRUE

\* handlecon, lines 787-790: a packet is sent back only when the direction
\* of the Control message is 'b'
Echoes(d) == d = "b"

\* handlecon, lines 782-796: count the packet, echo it when bidirectional,
\* then look at its first byte.  src is the sender the echo goes back to.
HCount(s, b0, src) ==
    /\ numrcv' = [numrcv EXCEPT ![s] = @ + 1]
    /\ sawE'   = [sawE EXCEPT ![s] = @ \/ b0 = "E"]
    /\ IF ~Echoes(hctl[s].direct)
       THEN /\ hpc' = [hpc EXCEPT ![s] = IF b0 = "E" THEN "finalwr" ELSE "loop"]
            /\ UNCHANGED <<s2c, uecho, hexit, hdiag, sopen, reset, bound>>
       ELSE IF hctl[s].prot = "t"
       THEN /\ copen[s] => Len(s2c[s]) < SockCap
            /\ \E o \in WriteOutcomes(copen[s]) :
                 IF o = "ok"
                 THEN /\ s2c' = [s2c EXCEPT ![s] =
                           IF copen[s]
                           THEN Append(@, Data(b0, hctl[s].len)) ELSE @]
                      /\ hpc' = [hpc EXCEPT ![s] =
                           IF b0 = "E" THEN "finalwr" ELSE "loop"]
                      /\ UNCHANGED <<hexit, hdiag, sopen, reset, bound>>
                 ELSE /\ hpc'   = [hpc EXCEPT ![s] = "exit"]
                      /\ hexit' = [hexit EXCEPT ![s] = ExitOf(o)]
                      /\ hdiag' = [hdiag EXCEPT ![s] = DiagOf(o, "write")]
                      /\ sopen' = [sopen EXCEPT ![s] = FALSE]
                      /\ reset' = [reset EXCEPT ![s] = @ \/ Len(c2s[s]) > 1]
                      /\ bound' = [bound EXCEPT ![s] = 0]
                      /\ UNCHANGED s2c
            /\ UNCHANGED uecho
       ELSE /\ uecho' = [uecho EXCEPT ![src] =
                 IF cpc[src] # "exit" /\ Cardinality(@) < UdpCap
                 THEN @ \cup {b0} ELSE @]
            /\ hpc' = [hpc EXCEPT ![s] = IF b0 = "E" THEN "finalwr" ELSE "loop"]
            /\ UNCHANGED <<s2c, hexit, hdiag, sopen, reset, bound>>
    /\ echoed' = [echoed EXCEPT ![s] =
                    IF Echoes(hctl[s].direct) /\ hpc'[s] # "exit"
                    THEN @ + 1 ELSE @]

\* one copy of the globals for all handlers
GlobalsShared(s) == 1

\* genserver, line 660: a handler is a forked process; the globals of lines
\* 109-118 (numtout, timedout) it works on are its own copy
Globals(s)       == s

\* the receive is tried again after a timeout
TimeoutRetries == "loop"

\* handlecon, lines 777-780: getmes returned 1, break out of the loop
TimeoutLeaves  == "finalwr"

\* handlecon, lines 678 and 708: udpsock is still 0 and getmes takes the
\* recvfrom branch; descriptor 0 is no socket and the call fails at once
NoSocket(s) == hctl[s].prot \notin {"t", "u"}

\* handlecon, lines 773-797 with getmes: one iteration of the transfer loop
HRecv(s) ==
    /\ hpc[s] = "loop"
    /\ \/ /\ hctl[s].prot = "t"
          /\ c2s[s] # <<>>
          /\ HCount(s, Byte0(Head(c2s[s])), s)
          /\ c2s' = [c2s EXCEPT ![s] = IF hpc'[s] = "exit" THEN <<>> ELSE Tail(@)]
          /\ UNCHANGED <<htout, halarm, unet>>
       \/ /\ hctl[s].prot = "t"           \* read() <= 0: close, exit(0)
          /\ c2s[s] = <<>>
          /\ ~copen[s]
          /\ HandlerExit(s, "0", "")
          /\ UNCHANGED <<numrcv, htout, halarm, s2c, unet, uecho, sawE, echoed>>
       \/ /\ hctl[s].prot # "t"
          /\ \E d \in unet :
               /\ d.port = bound[s]
               /\ unet' = unet \ {d}
               /\ HCount(s, d.b0, d.src)
          /\ halarm' = [halarm EXCEPT ![s] =
                          IF hpc'[s] = "loop"
                          THEN Armed(hctl[s].prot, Cancelled(hctl[s].prot, @))
                          ELSE Cancelled(hctl[s].prot, @)]
          /\ UNCHANGED <<htout, c2s>>
       \/ /\ NoSocket(s)                  \* recvfrom() < 0: perror, exit(1)
          /\ HandlerExit(s, "1", "recvfrom")
          /\ halarm' = [halarm EXCEPT ![s] = FALSE]
          /\ UNCHANGED <<numrcv, htout, s2c, unet, uecho, sawE, echoed>>
       \/ /\ halarm[s]                    \* SIGALRM: numtout++, return 1
          /\ ~NoSocket(s)
          /\ htout'  = [htout EXCEPT ![Globals(s)] = @ + 1]
          /\ hpc'    = [hpc EXCEPT ![s] = TimeoutLeaves]
          /\ halarm' = [halarm EXCEPT ![s] =
                          IF hpc'[s] = "loop" THEN Armed(hctl[s].prot, FALSE)
                          ELSE FALSE]
          /\ UNCHANGED <<numrcv, hexit, hdiag, sopen, reset, bound, c2s, s2c, unet, uecho,
                         sawE, echoed>>
    /\ UNCHANGED <<cvars, hctl, udpport, conn, disp, copen, gotport, esent, aftere,
                   epos, ateData, replied, skipped, finalmsg, env, tried,
                   nsample, late, calc>>

\* handlecon, lines 803-825: the Final statistics, close and exit(0)
HWriteFinal(s) ==
    /\ hpc[s] = "finalwr"
    /\ \E o \in WriteOutcomes(copen[s]), cpu \in CpuSamples :
         \E msg \in {FinalEncode(numrcv[s], htout[Globals(s)], cpu)} :
         IF o = "ok"
         THEN /\ s2c' = [s2c EXCEPT ![s] =
                   IF copen[s] THEN Append(@, Bytes("final", msg)) ELSE @]
              /\ finalmsg' = [finalmsg EXCEPT ![s] = msg]
              /\ HandlerExit(s, "0", "")
         ELSE /\ HandlerExit(s, ExitOf(o), DiagOf(o, "s: write"))
              /\ UNCHANGED <<s2c, finalmsg>>
    /\ UNCHANGED <<cvars, hctl, udpport, numrcv, htout, halarm, conn, disp, copen, unet,
                   uecho, gotport, esent, aftere, epos, sawE, ateData, replied,
                   skipped, env, xvars>>

\* --------------------------------------------------------------- peer
\* what a peer that is not this client may write as its first message:
\* lines that sscanf splits into fewer than four fields
RawCtls ==
    { <<NUL>>,
      <<"4", NUL>>,
      <<"6", " ", "u", NUL>>,
      <<"4", " ", "t", " ", "b", NUL>>,
      <<"6", " ", "u", " ", "b", " ", "x", "\n", NUL>> }

\* a peer on an established connection writes its first message
RawWriteCtl(s) ==
    /\ cpc[s] = "ctlwr"
    /\ sopen[s]
    /\ \E m \in RawCtls : c2s' = [c2s EXCEPT ![s] = Append(@, Bytes("ctl", m))]
    /\ cpc' = [cpc EXCEPT ![s] = "raw"]
    /\ UNCHANGED <<ipvers, prot, direct, meslen, mesnum, cnt, proceed, cbuf0,
                   ctout, calarm, expired, udpdst, cexit, cdiag, report, hvars, conn, disp, s2c,
                   copen, sopen, reset, unet, uecho, gvars, env, xvars>>

\* the peer closes the connection, after its message or without one
RawClose(s) ==
    /\ cpc[s] \in {"ctlwr", "raw"}
    /\ ClientExit(s, "0", "")
    /\ UNCHANGED <<ipvers, prot, direct, meslen, mesnum, cnt, proceed, cbuf0,
                   ctout, calarm, expired, udpdst, report, hvars, conn, disp, c2s, sopen,
                   reset, unet, gvars, env, xvars>>

\* ------------------------------------------------------------ network
\* a datagram towards the server is lost
UdpLose ==
    /\ \E d \in unet : unet' = unet \ {d}
    /\ UNCHANGED <<cvars, hvars, conn, disp, c2s, s2c, copen, sopen, reset, uecho, gvars,
                   env, xvars>>

\* a datagram towards a client is lost
EchoLose(s) ==
    /\ \E m \in uecho[s] : uecho' = [uecho EXCEPT ![s] = @ \ {m}]
    /\ UNCHANGED <<cvars, hvars, conn, disp, c2s, s2c, copen, sopen, reset, unet, gvars,
                   env, xvars>>

\* ------------------------------------------------------ specification
Flags   == [v : {"?", "4", "6"}, p : {"t", "u"}, d : {"u", "b"},
            l : MesLens, n : 0..MaxCount]

\* flags of the sessions of a run with two concurrent clients
DuoFlags == {f \in Flags : f.n = MaxCount /\ f.v = "6"}
Envs     == [faults : BOOLEAN, blocked : SUBSET Ports, clock : BOOLEAN]

\* session s runs with flags f[s] in environment e, sessions outside on
\* are not started.  The client is at position at: "args" before argument
\* handling, "start" after it, or "ctlwr", the state in which the connection
\* is established and accepted and the handler forked.
InitBase(on, f, e, at) ==
    /\ env      = e
    /\ cpc      = [s \in Sess |-> IF s \notin on THEN "off"
                                  ELSE at]
    /\ ipvers   = [s \in Sess |-> f[s].v]
    /\ prot     = [s \in Sess |-> f[s].p]
    /\ direct   = [s \in Sess |-> f[s].d]
    /\ meslen   = [s \in Sess |-> f[s].l]
    /\ mesnum   = [s \in Sess |-> f[s].n]
    /\ cnt      = [s \in Sess |-> 0]
    /\ proceed  = [s \in Sess |-> TRUE]
    /\ cbuf0    = [s \in Sess |-> "X"]
    /\ ctout    = [s \in Sess |-> 0]
    /\ expired  = [s \in Sess |-> FALSE]
    /\ udpdst   = [s \in Sess |-> 0]
    /\ cexit    = [s \in Sess |-> "run"]
    /\ cdiag    = [s \in Sess |-> ""]
    /\ calarm   = [s \in Sess |-> FALSE]
    /\ report   = [s \in Sess |-> NoReport]
    /\ hpc      = [s \in Sess |-> IF at = "ctlwr" /\ s \in on THEN "ctlrd" ELSE "none"]
    /\ hctl     = [s \in Sess |-> NoCtl]
    /\ udpport  = [s \in Sess |-> 0]
    /\ bound    = [s \in Sess |-> 0]
    /\ numrcv   = [s \in Sess |-> 0]
    /\ htout    = [s \in Sess |-> 0]
    /\ hexit    = [s \in Sess |-> "run"]
    /\ hdiag    = [s \in Sess |-> ""]
    /\ halarm   = [s \in Sess |-> FALSE]
    /\ conn     = [s \in Sess |-> IF at = "ctlwr" /\ s \in on THEN "accepted" ELSE "none"]
    /\ c2s      = [s \in Sess |-> <<>>]
    /\ s2c      = [s \in Sess |-> <<>>]
    /\ copen    = [s \in Sess |-> at = "ctlwr" /\ s \in on]
    /\ sopen    = [s \in Sess |-> at = "ctlwr" /\ s \in on]
    /\ reset    = [s \in Sess |-> FALSE]
    /\ unet     = {}
    /\ uecho    = [s \in Sess |-> {}]
    /\ gotport  = [s \in Sess |-> FALSE]
    /\ esent    = [s \in Sess |-> 0]
    /\ aftere   = [s \in Sess |-> 0]
    /\ epos     = [s \in Sess |-> 0]
    /\ sawE     = [s \in Sess |-> FALSE]
    /\ ateData  = [s \in Sess |-> FALSE]
    /\ replied  = [s \in Sess |-> <<>>]
    /\ skipped  = [s \in Sess |-> {}]
    /\ finalmsg = [s \in Sess |-> <<>>]
    /\ echoed   = [s \in Sess |-> 0]
    /\ tried    = [s \in Sess |-> <<>>]
    /\ nsample  = [s \in Sess |-> 0]
    /\ late     = [s \in Sess |-> 0]

InitAt(on, f, e, up) ==
    /\ InitBase(on, f, e, IF up THEN "ctlwr" ELSE "start")
    /\ calc = NoCalc
    /\ disp = Listening

InitWith(on, f, e) == InitAt(on, f, e, FALSE)

\* runs explored: one client alone with any flags (a counted transfer
\* also with blocked ports), or two concurrent clients
Scenario(faults) ==
    \/ \E f \in Flags, b \in SUBSET Ports :
         /\ f.n = 0 => b = {}
         /\ InitWith({1}, [s \in Sess |-> f],
                     [faults |-> faults, blocked |-> b, clock |-> FALSE])
    \/ \E f \in [Sess -> DuoFlags] :
         InitWith(Sess, f, [faults |-> faults, blocked |-> {}, clock |-> FALSE])

Init == Scenario(TRUE)

Next ==
    \/ \E s \in Sess : ClientConnect(s)
    \/ \E s \in Sess : ClientWriteCtl(s)
    \/ \E s \in Sess : ClientReadPort(s)
    \/ \E s \in Sess : ClientDeadline(s)
    \/ \E s \in Sess : ClientSend(s)
    \/ \E s \in Sess : ClientRecv(s)
    \/ \E s \in Sess : ClientFinal(s)
    \/ \E s \in Sess : Accept(s)
    \/ \E s \in Sess : HReadCtl(s)
    \/ \E s \in Sess : HSearch(s)
    \/ \E s \in Sess : HWritePort(s)
    \/ \E s \in Sess : HRecv(s)
    \/ \E s \in Sess : HWriteFinal(s)
    \/ UdpLose
    \/ \E s \in Sess : EchoLose(s)

Spec == Init /\ [][Next]_vars

\* the same runs in an environment where fork, connect and socket calls
\* do not fail
SpecOk == Scenario(FALSE) /\ [][Next]_vars

\* the steps of one client and of one handler
ClientStep(s) ==
    \/ ClientConnect(s)
    \/ ClientWriteCtl(s)
    \/ ClientReadPort(s)
    \/ ClientSend(s)
    \/ ClientRecv(s)
    \/ ClientFinal(s)

HandlerStep(s) ==
    \/ HReadCtl(s)
    \/ HSearch(s)
    \/ HWritePort(s)
    \/ HRecv(s)
    \/ HWriteFinal(s)

\* every process that can take a step eventually takes one, the clock
\* advances, and every pending alarm goes off; datagrams need not be lost
Fairness ==
    \A s \in Sess :
        /\ WF_vars(ClientStep(s))
        /\ WF_vars(ClientDeadline(s))
        /\ WF_vars(Accept(s))
        /\ WF_vars(HandlerStep(s))

\* the runs without failing calls in which the port search finds a port:
\* one client alone, or two concurrent unidirectional UDP clients
FairInit ==
    /\ Scenario(FALSE)
    /\ env.blocked # Ports
    /\ cpc[2] = "start" => \A s \in Sess : prot[s] = "u" /\ direct[s] = "u"

FairSpec == FairInit /\ [][Next]_vars /\ Fairness

\* packet lengths at which the number of digits changes, and the largest
CtlEdgeLens == {1, 9, 10, 99, 100, 999, 1000, 9999, 10000, 65535, 65536, MAXLEN}

\* the exchange of the Control message on an established connection: every
\* packet length -l accepts with each value of the family, transport and
\* direction, and every combination of the three with the lengths above
CtlInit ==
    \E v \in {"4", "6"}, p \in {"t", "u"}, d \in {"u", "b"}, l \in 1..MAXLEN :
        /\ l \notin CtlEdgeLens =>
               <<v, p, d>> \in {<<"4", "t", "u">>, <<"6", "u", "b">>}
        /\ InitAt({1}, [s \in Sess |-> [v |-> v, p |-> p, d |-> d, l |-> l,
                                        n |-> 1]],
                  [faults |-> FALSE, blocked |-> {},
                   clock |-> FALSE], TRUE)

CtlNext ==
    \/ ClientWriteCtl(1)
    \/ HReadCtl(1)

CtlSpec == CtlInit /\ [][CtlNext]_vars

\* elapsed ticks around the multiples of localhz * UDPTOUT
TickEdges ==
    {0, 1, 2, localhz - 1, localhz, localhz + 1}
        \cup { k * localhz * UDPTOUT + d : k \in 1..2, d \in {-1, 0, 1} }

\* the report arithmetic alone: a start tick, an end tick not before it and
\* the timeout seconds of a Final statistics message
CalcInit ==
    /\ InitBase({}, [s \in Sess |-> [v |-> "?", p |-> "t", d |-> "u",
                                     l |-> 512, n |-> 0]],
                [faults |-> FALSE, blocked |-> {}, clock |-> FALSE], "start")
    /\ disp = Listening
    /\ \E b \in 0..2, e \in TickEdges, k \in 0..2 :
          calc = [op |-> "in", beg |-> b, end |-> b + e, tout |-> k * UDPTOUT]

\* received counts, packet lengths and effective ticks of small and of
\* round transfers
RateCounts == {0, 1, 3, 1000}
RateLens   == {1, 502, 512}
RateTicks  == {1, 3, 7, 500}

\* the throughput arithmetic alone
RateInit ==
    /\ InitBase({}, [s \in Sess |-> [v |-> "?", p |-> "t", d |-> "u",
                                     l |-> 512, n |-> 0]],
                [faults |-> FALSE, blocked |-> {}, clock |-> FALSE], "start")
    /\ disp = Listening
    /\ \E n \in RateCounts, l \in RateLens, d \in {"u", "b"}, r \in RateTicks,
          h \in {localhz, 10 * localhz} :
          calc = [op |-> "rate-in", nrcv |-> n, len |-> l, d |-> d, rt |-> r,
                  hz |-> h, kps |-> 0]

\* arguments given with an option: letters, numbers around the limits of
\* the length, a negative number, text without a number, nothing
ArgTexts == {<<"4">>, <<"6">>, <<"t">>, <<"u">>, <<"b">>, <<"x">>, <<>>,
             <<"0">>, <<"1">>, <<"-", "5">>, FmtInt(MAXLEN),
             FmtInt(MAXLEN + 1)}

\* a client started with one option, before its arguments are handled;
\* the flags hold the defaults of lines 109-112
ArgInit ==
    /\ InitBase({1}, [s \in Sess |-> [v |-> "?", p |-> "t", d |-> "u",
                                      l |-> 512, n |-> 0]],
                [faults |-> FALSE, blocked |-> {}, clock |-> FALSE], "args")
    /\ disp = Listening
    /\ \E o \in {"v", "p", "d", "l", "c", "t"}, a \in ArgTexts :
          calc = [op |-> "args", opt |-> o, arg |-> a, mestime |-> 10]

ArgNext ==
    \/ ClientArgs(1)
    \/ ClientConnect(1)

ArgSpec == ArgInit /\ [][ArgNext]_vars

\* a receiver of n packets of len bytes on a stream whose sender may
\* close at any time; buf holds nothing of the stream yet
TcpInit ==
    /\ InitBase({}, [s \in Sess |-> [v |-> "?", p |-> "t", d |-> "u",
                                     l |-> 512, n |-> 0]],
                [faults |-> FALSE, blocked |-> {}, clock |-> FALSE], "start")
    /\ disp = Listening
    /\ \E l \in 1..MaxBytes, n \in 1..MaxPackets :
          calc = [op |-> "tcp", len |-> l, n |-> n, sent |-> 0,
                  stream |-> <<>>, open |-> TRUE, sock |-> TRUE,
                  buf |-> [j \in 1..l |-> [b |-> "?", pkt |-> 0, off |-> j - 1]],
                  left |-> 0, taken |-> 0, pkts |-> 0, code |-> "run"]

TcpNext ==
    \/ TcpWrite
    \/ TcpClose
    \/ TcpRead

TcpSpec == TcpInit /\ [][TcpNext]_vars

\* clients started next to a server that has yet to create its endpoint
BootInit ==
    /\ \E f \in [Sess -> {g \in Flags : g.n = MaxCount /\ g.p = "t" /\ g.d = "u"}] :
          InitBase(Sess, f, [faults |-> FALSE, blocked |-> {}, clock |-> FALSE],
                   "start")
    /\ calc = NoCalc
    /\ disp = Booting

BootNext ==
    \/ DispatcherStart
    \/ AcceptFail
    \/ \E s \in Sess : ClientConnect(s)
    \/ \E s \in Sess : ClientWriteCtl(s)
    \/ \E s \in Sess : Accept(s)
    \/ \E s \in Sess : HReadCtl(s)

BootSpec == BootInit /\ [][BootNext]_vars

\* gettcpsock called for a host the resolver knows up to MaxAddrs
\* addresses of (none: getaddrinfo failed), each accepting connections or
\* not
GetTcpSockInit ==
    /\ InitBase({}, [s \in Sess |-> [v |-> "?", p |-> "t", d |-> "u",
                                     l |-> 512, n |-> 0]],
                [faults |-> FALSE, blocked |-> {}, clock |-> FALSE], "start")
    /\ disp = Listening
    /\ \E n \in 0..MaxAddrs, fam \in {"4", "6"}, vb \in BOOLEAN,
          nofd \in BOOLEAN :
          \E a \in [1..n -> BOOLEAN] :
             calc = [op |-> "gettcpsock", family |-> fam, verbose |-> vb,
                     nofd |-> nofd, addrs |-> a, r |-> 1, sock |-> "none",
                     info |-> 0, calls |-> <<>>, diag |-> ""]

GetTcpSockSpec == GetTcpSockInit /\ [][GetTcpSockStep]_vars

CalcNext ==
    \/ CalcTicks
    \/ CalcThroughput

\* the report arithmetic started on the inputs of either computation
CalcStart ==
    \/ CalcInit
    \/ RateInit

CalcSpec == CalcStart /\ [][CalcNext]_vars

\* two concurrent clients, calls may fail; the dispatcher is scheduled,
\* clients and handlers take steps or stay where they are
DispInit == Scenario(TRUE) /\ cpc[2] = "start"

\* the steps of these runs: the transfers are counted ones, no step
\* depends on the clock
DispNext ==
    \/ \E s \in Sess : ClientStep(s)
    \/ \E s \in Sess : Accept(s)
    \/ \E s \in Sess : HandlerStep(s)
    \/ UdpLose
    \/ \E s \in Sess : EchoLose(s)

DispSpec == DispInit /\ [][DispNext]_vars /\ \A s \in Sess : WF_vars(Accept(s))

\* one client alone, no call failing, with the clock followed from the
\* start of the transfer loop whatever the mode of the transfer
TimeInit ==
    \E f \in Flags :
        /\ f.v = "6"
        /\ InitWith({1}, [s \in Sess |-> f],
                    [faults |-> FALSE, blocked |-> {}, clock |-> TRUE])

TimeSpec == TimeInit /\ [][Next]_vars

\* a handler on an established connection whose peer writes a first
\* message of its own making and later closes
RawInit ==
    \E b \in SUBSET Ports :
        InitAt({1}, [s \in Sess |-> [v |-> "4", p |-> "t", d |-> "u",
                                     l |-> 512, n |-> 1]],
               [faults |-> FALSE, blocked |-> b, clock |-> FALSE], TRUE)

RawNext ==
    \/ RawWriteCtl(1)
    \/ RawClose(1)
    \/ HReadCtl(1)
    \/ HSearch(1)
    \/ HWritePort(1)
    \/ HRecv(1)
    \/ HWriteFinal(1)

RawSpec == RawInit /\ [][RawNext]_vars

\* ----------------------------------------------------------- properties
LoopLeft(s)  == cpc[s] = "final" \/ report[s] # NoReport
Reported(s)  == cpc[s] = "exit" /\ cexit[s] = "0" /\ report[s] # NoReport
FinalSent(s) == finalmsg[s] # <<>>

GaveUp(s) ==
    /\ cpc[s] = "exit" /\ cexit[s] = "1" /\ report[s] = NoReport
    /\ esent[s] = 1 /\ ~proceed[s]

C2_RcvLeSent ==
    \A s \in Sess :
        /\ numrcv[s] <= cnt[s]
        /\ FinalSent(s) => FinalParse(finalmsg[s]).numrcv <= cnt[s]

\* C3: in every TCP session that runs to completion the received-count
\* the server reports equals the number of packets the client sent, and
\* the client reports 0 lost packets and a loss percentage of 0.
C3_TcpNoLoss ==
    \A s \in Sess :
        (prot[s] = "t" /\ Reported(s)) =>
            /\ FinalParse(finalmsg[s]).numrcv = cnt[s]
            /\ report[s].numrcv = cnt[s]
            /\ report[s].lost = 0
            /\ report[s].pct = 0

C3_Witness ==
    \E s \in Sess :
        /\ prot[s] = "t" /\ direct[s] = "b" /\ mesnum[s] = 0
        /\ Reported(s) /\ report[s].cnt = CHECKMASK + 1

\* C4: in count mode with count N >= 1 the client sends exactly N data
\* packets, only the N-th packet carries the marker 'E', and over TCP the
\* server's reported received-count is N.
C4_CountMode ==
    \A s \in Sess :
        mesnum[s] >= 1 =>
            /\ cnt[s] <= mesnum[s]
            /\ LoopLeft(s) => cnt[s] = mesnum[s]
            /\ esent[s] = (IF cnt[s] = mesnum[s] THEN 1 ELSE 0)
            /\ epos[s] \in {0, mesnum[s]}
            /\ (prot[s] = "t" /\ FinalSent(s)) =>
                   FinalParse(finalmsg[s]).numrcv = mesnum[s]

C4_Witness ==
    \E s \in Sess :
        /\ mesnum[s] = MaxCount /\ prot[s] = "t" /\ direct[s] = "u"
        /\ FinalSent(s) /\ cnt[s] = MaxCount /\ epos[s] = MaxCount

\* C5: the client sends no data packet before it has read the Port reply,
\* the handler attempts no data receive before it has written the Port
\* reply, and the handler's read of the Control message never consumes
\* data packet bytes.
C5_HandshakeFirst ==
    \A s \in Sess :
        /\ cnt[s] > 0 => gotport[s]
        /\ hpc[s] \in {"loop", "finalwr"} => replied[s] # <<>>
        /\ numrcv[s] > 0 => replied[s] # <<>>
        /\ ~ateData[s]

\* C6: exactly one data packet sent by the client carries the marker in
\* its first byte, it is the last packet of the transfer loop, and the
\* client sends no data packet after it.
C6_OneMarkerLast ==
    \A s \in Sess :
        /\ esent[s] <= 1
        /\ aftere[s] = 0
        /\ esent[s] = 1 => epos[s] = cnt[s]
        /\ LoopLeft(s) => esent[s] = 1

C6_Witness ==
    \E s \in Sess :
        /\ mesnum[s] = 0 /\ prot[s] = "u" /\ direct[s] = "b"
        /\ LoopLeft(s) /\ esent[s] = 1 /\ cnt[s] = CHECKMASK + 1

\* C7: a handler writes the Final statistics only after it has received a
\* packet whose first byte is the marker or, in UDP mode only, after a
\* receive timed out.
C7_FinalAfterMarker ==
    \A s \in Sess :
        (hpc[s] = "finalwr" \/ FinalSent(s)) =>
            \/ sawE[s]
            \/ hctl[s].prot = "u" /\ prot[s] = "u" /\ htout[s] > 0

C7_Witness ==
    \E s \in Sess, o \in Sess :
        /\ FinalSent(s) /\ prot[s] = "t" /\ sawE[s]
        /\ FinalSent(o) /\ prot[o] = "u" /\ ~sawE[o] /\ htout[o] = 1

\* C8: for a UDP session the port in the Port reply is the first port p
\* of base, base+1, ... on which the handler's bind succeeded, the failed
\* candidates being skipped; p >= base and the handler holds p bound when
\* the reply is written.
C8_FirstFreePort ==
    \A s \in Sess :
        (prot[s] = "u" /\ replied[s] # <<>>) =>
            LET p == PortParse(replied[s]) IN
            /\ p >= MYPORT
            /\ p \notin env.blocked
            /\ skipped[s] = MYPORT..(p - 1)
            /\ \A q \in skipped[s] :
                   \/ q \in env.blocked
                   \/ \E o \in Sess \ {s} :
                        /\ udpport[o] = q
                        /\ hpc[o] \in {"portwr", "loop", "finalwr", "exit"}
            /\ hpc[s] \in {"loop", "finalwr"} => bound[s] = p
            /\ \A o \in Sess \ {s} : bound[s] # 0 => bound[o] # bound[s]

C8_Witness ==
    \E s \in Sess :
        /\ prot[s] = "u" /\ replied[s] # <<>> /\ hpc[s] = "loop"
        /\ PortParse(replied[s]) = MYPORT + 1

\* C9: for a TCP session the handler opens no data socket and the Port
\* reply it writes is exactly the string "0".
C9_TcpReplyZero ==
    \A s \in Sess :
        prot[s] = "t" =>
            /\ bound[s] = 0
            /\ skipped[s] = {}
            /\ replied[s] # <<>> => replied[s] = <<"0", NUL>>

C9_Witness ==
    \E s \in Sess : prot[s] = "t" /\ replied[s] = <<"0", NUL>> /\ cnt[s] > 0

\* C10: for every ipver in {4,6}, proto in {t,u}, dir in {u,b} and length
\* in 1..65636 the Control message the client encodes is at most 31 bytes
\* and the handler's parse of it yields the same (ipver, proto, dir, len).
C10_CtlRoundTrip ==
    \A s \in Sess :
        /\ \A i \in 1..Len(c2s[s]) :
               c2s[s][i].k = "ctl" =>
                   /\ Len(c2s[s][i].bytes) <= CTLINFOSZ - 1
                   /\ CtlParse(c2s[s][i].bytes).len = meslen[s]
        /\ hctl[s] # NoCtl =>
               hctl[s] = [n |-> 4, ipvers |-> ipvers[s], prot |-> prot[s],
                          direct |-> direct[s], len |-> meslen[s]]

C10_Witness ==
    \E s \in Sess :
        /\ meslen[s] = MAXLEN /\ ipvers[s] = "6" /\ prot[s] = "u"
        /\ direct[s] = "b" /\ hctl[s].n = 4 /\ hctl[s].len = MAXLEN

\* C11: when the Control message a handler read does not parse into the
\* four fields, the handler writes no Port reply and never enters the
\* transfer loop.
C11_MalformedAborts ==
    \A s \in Sess :
        (hctl[s] # NoCtl /\ hctl[s].n < 4) =>
            /\ replied[s] = <<>>
            /\ hpc[s] \notin {"portwr", "loop", "finalwr"}

\* C12: in a UDP session the handler leaves its receive loop on the first
\* receive timeout: the timeout does not increment numrcv, afterwards the
\* handler receives and echoes no further packet, and it proceeds to the
\* Final statistics.
C12_TimeoutEndsLoop ==
    [][\A s \in Sess :
        /\ htout'[s] # htout[s] =>
              /\ hctl[s].prot = "u" /\ hpc[s] = "loop"
              /\ htout[s] = 0 /\ htout'[s] = 1
              /\ hpc'[s] = "finalwr"
              /\ numrcv'[s] = numrcv[s] /\ echoed'[s] = echoed[s]
        /\ htout[s] > 0 =>
              /\ hpc[s] \in {"finalwr", "exit"}
              /\ hpc'[s] \in {"finalwr", "exit"}
              /\ numrcv'[s] = numrcv[s] /\ echoed'[s] = echoed[s]
              /\ hpc[s] = "finalwr" =>
                    \/ hpc'[s] = "finalwr" /\ finalmsg'[s] = finalmsg[s]
                    \/ hpc'[s] = "exit" /\ hexit'[s] # "0"
                    \/ FinalParse(finalmsg'[s]).numrcv = numrcv[s]]_vars

C12_Witness ==
    \E s \in Sess :
        /\ prot[s] = "u" /\ direct[s] = "b" /\ htout[s] = 1
        /\ hpc[s] = "exit" /\ finalmsg[s] # <<>>
        /\ numrcv[s] = 1 /\ echoed[s] = 1 /\ cnt[s] = 2

\* main, lines 335-345: the condition under which the transfer loop ends
Reached(s) ==
    IF mesnum[s] # 0 THEN cnt[s] = mesnum[s]
    ELSE cnt[s] > 0 /\ cnt[s] % (CHECKMASK + 1) = 0 /\ expired[s]

\* C13: in a bidirectional UDP transfer a receive timeout of the client is
\* not fatal and does not alter the termination condition: the client goes
\* on with the loop, its count and loop flag untouched, and the loop ends
\* exactly when the count is reached or the deadline test succeeds.
C13_ClientTimeoutHarmless ==
    [][\A s \in Sess :
        (prot[s] = "u" /\ direct[s] = "b") =>
            /\ (cpc[s] = "recv" /\ cpc'[s] # "recv") =>
                  /\ cexit'[s] = "run"
                  /\ cnt'[s] = cnt[s] /\ proceed'[s] = proceed[s]
                  /\ cpc'[s] = (IF proceed[s] THEN "loop" ELSE "final")
            /\ ~proceed[s] => Reached(s)
            /\ cpc[s] = "final" => Reached(s)
            /\ (mesnum[s] # 0 /\ Reached(s)) => ~proceed[s]
            /\ mesnum[s] # 0 => cnt[s] <= mesnum[s]]_vars

C13_Witness ==
    \E s \in Sess :
        /\ prot[s] = "u" /\ direct[s] = "b" /\ mesnum[s] = MaxCount
        /\ ctout[s] = MaxTout /\ cpc[s] = "final" /\ cnt[s] = MaxCount

C15_CountDecides ==
    \A s \in Sess :
        mesnum[s] >= 1 =>
            /\ nsample[s] = 0
            /\ cnt[s] <= mesnum[s]
            /\ ~proceed[s] <=> cnt[s] = mesnum[s]
            /\ LoopLeft(s) => cnt[s] = mesnum[s]
            /\ esent[s] = (IF cnt[s] = mesnum[s] THEN 1 ELSE 0)

C15_Witness ==
    \E s \in Sess :
        /\ mesnum[s] = MaxCount /\ cpc[s] = "final" /\ cnt[s] = MaxCount
        /\ expired[s] /\ late[s] = MaxCount

\* C16: after every accept the dispatcher is back listening without
\* waiting for the handler: a connection in the backlog is accepted while
\* an earlier handler is running or blocked for ever, and also after the
\* spawning of a handler failed.
C16_DispatcherReturns ==
    \A s \in Sess : (conn[s] = "pending") ~> (conn[s] = "accepted")

C16_Witness ==
    \E s \in Sess, o \in Sess :
        /\ hpc[s] = "loop" /\ prot[s] = "t" /\ c2s[s] = <<>> /\ cnt[s] = 0
        /\ conn[o] = "accepted" /\ hpc[o] = "none" /\ ~sopen[o]

\* what handler s works on
HandlerState(s) ==
    <<hpc[s], hctl[s], udpport[s], bound[s], numrcv[s], htout[s], hexit[s]>>

C18_FamilyFallback ==
    [][\A s \in Sess :
        /\ (cpc[s] = "start" /\ cpc'[s] # "start") =>
              /\ tried'[s] \in
                    (IF ipvers[s] \in {"4", "6"}
                     THEN {<<<<ipvers[s], TRUE>>>>, <<<<ipvers[s], FALSE>>>>}
                     ELSE {<<<<"6", TRUE>>>>, <<<<"6", FALSE>>, <<"4", TRUE>>>>,
                           <<<<"6", FALSE>>, <<"4", FALSE>>>>})
              /\ IF tried'[s][Len(tried'[s])][2]
                 THEN /\ cpc'[s] = "ctlwr" /\ conn'[s] = "pending"
                      /\ ipvers'[s] = tried'[s][Len(tried'[s])][1]
                 ELSE /\ cpc'[s] = "exit" /\ cexit'[s] = "1"
                      /\ conn'[s] = "none"
        /\ \A i \in 1..Len(c2s[s]) :
              c2s[s][i].k = "ctl" =>
                  /\ c2s[s][i].bytes[1] \in {"4", "6"}
                  /\ c2s[s][i].bytes[1] = ipvers[s]
                  /\ <<ipvers[s], TRUE>> = tried[s][Len(tried[s])]
        /\ conn[s] = "none" => (c2s[s] = <<>> /\ cnt[s] = 0)]_vars

C18_Witness ==
    \E s \in Sess :
        /\ tried[s] = <<<<"6", FALSE>>, <<"4", TRUE>>>>
        /\ hctl[s].n = 4 /\ hctl[s].ipvers = "4"

\* C19: when, after the last packet, the server closes the control
\* channel without data, or no data arrives within UDPTOUT+5 = 10 seconds,
\* the client exits with status 1 and prints no report.
C19_NoResponseExit ==
    [][\A s \in Sess :
        (cpc[s] = "final" /\ cpc'[s] # "final") =>
            /\ cpc'[s] = "exit"
            /\ IF s2c[s] = <<>>
               THEN cexit'[s] = "1" /\ report'[s] = NoReport
               ELSE cexit'[s] = "0" /\ report'[s] # NoReport]_vars

C19_Witness ==
    \E s \in Sess, o \in Sess :
        /\ GaveUp(s) /\ hpc[s] = "loop" /\ sopen[s]
        /\ GaveUp(o) /\ hpc[o] = "none" /\ conn[o] = "accepted"

\* C20: the effective elapsed tick count, (end - start) less the server's
\* timeout seconds times the tick rate, is at least 1 for every start
\* tick, end tick and timeout value when throughput and hog factors are
\* computed from it.
C20_TicksFloored ==
    calc.op = "ticks" => calc.realticks >= 1

\* C21: for every received count, packet length, direction factor, tick
\* rate and effective ticks >= 1 the throughput reported equals
\* received x length x factor x tick-rate / ticks / 1024, evaluated in
\* that order (1000, 512, 1, 100, 500 gives 100).
C21_ThroughputFormula ==
    calc.op = "rate" =>
        calc.kps = CDiv(CDiv(calc.nrcv * calc.len * Factor(calc.d) * calc.hz,
                             calc.rt), 1024)

\* C22: for every session that prints a report the loss percentage is
\* (sent - received) x 100 / sent, the divisor (packets sent) is never 0, and
\* the result is always between 0 and 100.
C22_LossPercentage ==
    \A s \in Sess :
        report[s] # NoReport =>
            /\ report[s].cnt > 0
            /\ report[s].pct =
                   CDiv((report[s].cnt - report[s].numrcv) * 100, report[s].cnt)
            /\ report[s].pct \in 0..100

\* C23: a client that terminates with exit code 0 has read the Final
\* statistics and printed its report (normal completion); every other
\* termination of the client has a non-zero exit code.
C23_ZeroOnlyOnReport ==
    \A s \in Sess :
        (cpc[s] = "exit" /\ cexit[s] = "0") => report[s] # NoReport

\* C25: a client whose Control write failed, or whose read of the Port
\* reply failed or hit end of file, has left the handshake terminated with a
\* non-zero exit code and has sent no data packet.
C25_HandshakeFailureFatal ==
    \A s \in Sess :
        (~gotport[s] /\ cpc[s] \notin {"off", "start", "ctlwr", "portrd"}) =>
            /\ cpc[s] = "exit"
            /\ cexit[s] \notin {"run", "0"}
            /\ cnt[s] = 0

\* C24: every termination of a client other than the one after its report,
\* and every termination of a handler other than the one after its Final
\* statistics, is preceded by a diagnostic that process wrote.
C24_FatalHasDiagnostic ==
    \A s \in Sess :
        /\ (cpc[s] = "exit" /\ ~Reported(s)) => cdiag[s] # ""
        /\ (hpc[s] = "exit" /\ ~(hexit[s] = "0" /\ FinalSent(s))) =>
               hdiag[s] # ""

\* the claim's reading of a refused value: a version other than 4 or 6, a
\* protocol other than t or u, a direction other than u or b, a length
\* whose integer value is not in 1..MAXLEN, a count or a duration whose
\* integer value is zero or negative
InvalidFlag(opt, arg) ==
    CASE opt = "v" -> arg \notin {<<"4">>, <<"6">>}
      [] opt = "p" -> arg \notin {<<"t">>, <<"u">>}
      [] opt = "d" -> arg \notin {<<"u">>, <<"b">>}
      [] opt = "l" -> Atoi(arg) \notin 1..MAXLEN
      [] opt \in {"c", "t"} -> Atoi(arg) <= 0

\* C26: a client whose option carried an invalid value has exited with code
\* 1 once the arguments are handled, and no socket was opened for it.
C26_InvalidFlagExits ==
    (calc.op = "parsed" /\ InvalidFlag(calc.opt, calc.arg)) =>
        /\ cpc[1] = "exit" /\ cexit[1] = "1"
        /\ tried[1] = <<>> /\ conn[1] = "none" /\ ~copen[1]

\* C27: whenever a TCP receive of a packet of length L has returned, exactly
\* L bytes per returned packet have been consumed from the stream, however
\* the reads were cut, and the first byte of the buffer, the one inspected
\* for the marker, is the first byte of the packet just received; a
\* zero-byte read ends the process with exit and the connection closed.
C27_TcpReceiveExact ==
    /\ (calc.op = "tcp" /\ calc.left = 0) =>
           /\ calc.taken = calc.pkts * calc.len
           /\ calc.pkts > 0 =>
                  /\ calc.buf[1].off = 0
                  /\ calc.buf[1].pkt = calc.pkts
                  /\ \A j \in 1..calc.len :
                         calc.buf[j] = PacketBytes(calc.pkts, calc.n, calc.len)[j]
    /\ (calc.op = "tcp" /\ calc.left > 0) =>
           calc.taken = calc.pkts * calc.len + (calc.len - calc.left)
    /\ calc.op = "exit" =>
           /\ ~calc.sock /\ calc.stream = <<>> /\ ~calc.open

\* three partial reads of one byte each have delivered the marker packet
C27_Witness ==
    /\ calc.op = "tcp" /\ calc.len = MaxBytes /\ calc.left = 0
    /\ calc.pkts = calc.n /\ calc.n > 1 /\ calc.buf[1].b = "E"
    /\ calc.taken = calc.n * MaxBytes

\* C28: the receive alarm is pending exactly while a process waits in a
\* receive that is not a TCP receive: it is armed before every such receive,
\* cancelled after every one that succeeded and never armed for a TCP data
\* receive; it can be armed again after it went off, and each time it goes
\* off the timeout counter of that process grows by exactly one.
C28_ReceiveTimer ==
    /\ [](\A s \in Sess :
            /\ calarm[s] <=> (cpc[s] = "recv" /\ prot[s] # "t")
            /\ halarm[s] <=> (hpc[s] = "loop" /\ hctl[s].prot # "t"))
    /\ [][\A s \in Sess :
            /\ (cpc[s] = "recv" /\ ctout'[s] # ctout[s]) =>
                   (calarm[s] /\ ctout'[s] = ctout[s] + 1)
            /\ (calarm[s] /\ ~calarm'[s] /\ uecho'[s] = uecho[s]) =>
                   ctout'[s] = (IF ctout[s] < MaxTout THEN ctout[s] + 1
                                ELSE ctout[s])
            /\ htout'[s] # htout[s] =>
                   (halarm[s] /\ htout'[s] = htout[s] + 1)
            /\ (halarm[s] /\ ~halarm'[s] /\ numrcv'[s] = numrcv[s]
                    /\ hpc'[s] # "exit") =>
                   htout'[s] = htout[s] + 1]_vars

\* a client whose alarm went off in two receives, armed again in between,
\* next to a handler whose alarm was cancelled by its last receive
C28_Witness ==
    \E s \in Sess :
        /\ prot[s] = "u" /\ direct[s] = "b" /\ ctout[s] = 2
        /\ cpc[s] = "final" /\ ~calarm[s]
        /\ hpc[s] = "finalwr" /\ sawE[s] /\ ~halarm[s] /\ htout[s] = 0

C30_EndpointFamily ==
    /\ [](/\ Len(disp.tried) <= 2
          /\ disp.pc # "boot" => disp.tried[1][1] = "6"
          /\ Len(disp.tried) = 2 =>
                 /\ disp.tried[1][2] \in {"getaddrinfo", "socket"}
                 /\ disp.tried[2][1] = "4"
          /\ (Len(disp.tried) = 1 /\ disp.pc = "accept") =>
                 (disp.tried[1][2] = "ok" /\ disp.passock = "6")
          /\ \A i \in 1..Len(disp.tried) :
                 disp.tried[i][2] \in {"bind", "listen"} =>
                    (disp.pc = "exit" /\ disp.code \notin {"run", "0"})
          /\ disp.err = "s: accept" =>
                 (disp.pc = "exit" /\ disp.code \notin {"run", "0"})
          /\ \A s \in Sess : conn[s] # "none" => disp.passock # "none")
    /\ [][disp.pc # "boot" =>
             (disp'.passock = disp.passock /\ disp'.tried = disp.tried)]_vars

\* a server on the IPv4 endpoint it fell back to, ended by a failing accept
\* after it had accepted a connection
C30_Witness ==
    /\ disp.tried = <<<<"6", "socket">>, <<"4", "ok">>>>
    /\ disp.passock = "4" /\ disp.pc = "exit" /\ disp.code = "1"
    /\ disp.err = "s: accept"
    /\ \E s \in Sess : conn[s] = "accepted" /\ hctl[s] # NoCtl

\* C31: when socket() works and at least one resolved address accepts the
\* connection, gettcpsock returns a connected socket, having tried the
\* addresses in turn up to the first that accepts, and the metadata it hands
\* back is that of the address it connected to.
C31_ConnectsIfAnyAccepts ==
    (calc.op = "ret" /\ ~calc.nofd
        /\ \E i \in 1..Len(calc.addrs) : calc.addrs[i]) =>
        /\ calc.sock = "fd"
        /\ calc.calls = [i \in 1..Len(calc.calls) |-> i]
        /\ calc.addrs[Len(calc.calls)]
        /\ calc.info = Len(calc.calls)

\* C32: a handler is only ever at a position of handlecon or gone: it
\* leaves handlecon by exiting, an exited handler takes no further step, a
\* connection is accepted by the dispatcher alone, and no handler holds a
\* descriptor of the listening socket.
C32_HandlerEndsByExit ==
    /\ [](\A s \in Sess :
            /\ hpc[s] \in {"none", "ctlrd", "search", "portwr", "loop",
                           "finalwr", "exit"}
            /\ hpc[s] = "exit" <=> hexit[s] # "run"
            /\ s \notin disp.held)
    /\ [][\A s \in Sess :
            /\ hpc[s] = "exit" => HandlerState(s)' = HandlerState(s)
            /\ (hpc[s] = "finalwr" /\ hpc'[s] # "finalwr") => hpc'[s] = "exit"
            /\ conn'[s] # conn[s] =>
                   \/ conn'[s] = "pending" /\ hpc[s] = "none"
                   \/ /\ conn'[s] = "accepted" /\ disp.pc = "accept"
                      /\ hpc[s] = "none" /\ hpc'[s] \in {"none", "ctlrd"}]_vars

\* one handler gone after its Final statistics, another gone on a failed
\* write, the dispatcher still in its accept loop
C32_Witness ==
    \E s, o \in Sess :
        /\ hpc[s] = "exit" /\ hexit[s] = "0" /\ FinalSent(s)
        /\ hpc[o] = "exit" /\ hexit[o] = "1"
        /\ disp.pc = "accept" /\ disp.held = {}

\* a UDP session is active while its handler holds the data socket it
\* bound in its port search
ActiveUdp(s) ==
    hctl[s] # NoCtl /\ hctl[s].prot = "u" /\ hpc[s] \in {"portwr", "loop", "finalwr"}

\* C33: two UDP sessions of the same address family that are active at the
\* same time hold different data ports and were told different ports,
\* whatever the order of the steps of their handlers' port searches; a
\* search never binds a port another handler holds.
C33_DistinctDataPorts ==
    /\ [](\A s \in Sess : \A o \in Sess \ {s} :
            (ActiveUdp(s) /\ ActiveUdp(o)
                /\ hctl[s].ipvers = hctl[o].ipvers) =>
               /\ bound[s] # bound[o]
               /\ udpport[s] # udpport[o]
               /\ (replied[s] # <<>> /\ replied[o] # <<>>) =>
                      PortParse(replied[s]) # PortParse(replied[o]))
    /\ [][\A s \in Sess :
            (bound'[s] # bound[s] /\ bound'[s] # 0) =>
               \A o \in Sess \ {s} : bound[o] # bound'[s] /\ bound'[o] # bound'[s]]_vars

\* both handlers in their receive loops, the second search having skipped
\* the port the first one holds
C33_Witness ==
    \E s \in Sess : \E o \in Sess \ {s} :
        /\ ActiveUdp(s) /\ ActiveUdp(o) /\ hctl[s].ipvers = hctl[o].ipvers
        /\ hpc[s] = "loop" /\ hpc[o] = "loop"
        /\ bound[s] = MYPORT /\ bound[o] = MYPORT + 1
        /\ skipped[o] = {MYPORT}

\* C34: the timeout field of every Final statistics message is 0 or
\* UDPTOUT (5): the handler's timeout counter starts at 0, grows by one
\* timeout at most, and stays 0 in a TCP session, where the field is 0.
C34_TimeoutField ==
    /\ [](\A s \in Sess :
            /\ htout[s] \in {0, 1}
            /\ hpc[s] \in {"none", "ctlrd", "search", "portwr"} => htout[s] = 0
            /\ (hctl[s] # NoCtl /\ hctl[s].prot = "t") => htout[s] = 0
            /\ FinalSent(s) =>
                  /\ FinalParse(finalmsg[s]).n = 3
                  /\ FinalParse(finalmsg[s]).numtout \in {0, UDPTOUT}
                  /\ FinalParse(finalmsg[s]).numtout = UDPTOUT <=> htout[s] = 1
                  /\ hctl[s].prot = "t" => FinalParse(finalmsg[s]).numtout = 0)
    /\ [][\A s \in Sess :
            htout'[s] # htout[s] => hpc'[s] = "finalwr" /\ hctl[s].prot = "u"]_vars

\* a UDP handler whose one receive timeout is told as 5 seconds
C34_Witness ==
    \E s \in Sess :
        /\ FinalSent(s) /\ hctl[s].prot = "u" /\ htout[s] = 1
        /\ FinalParse(finalmsg[s]).numtout = UDPTOUT
        /\ hpc[s] = "exit" /\ hexit[s] = "0"

====
